---- MODULE Spec2Model ----
(***************************************************************************)
(* Janus Management Studio, main process (main.js and its later variant):  *)
(* the connection manager, the credential vault and the window-state store *)
(* as state machines over the process's globals and its two files.         *)
(***************************************************************************)
EXTENDS Integers, Sequences, FiniteSets, TLC

\* ------------------------------------------------------------------ values

\* JavaScript null / a present value.
None == <<>>
Some(v) == <<v>>

\* Connection handles the driver can hand out in one run of the process.
MaxHandles == 3
Handles == 1 .. MaxHandles

\* The values the login form can put in a config object.
Servers == {"GEMINI", "LOCAL"}
Databases == {"JanusPlatformQA"}
Usernames == {"IrisPlatformCreate"}
Passwords == {"pw"}
Configs ==
  [server : Servers, database : Databases, username : Usernames,
   password : Passwords, saveCredentials : BOOLEAN]
NoConfig ==
  [server |-> "", database |-> "", username |-> "", password |-> "",
   saveCredentials |-> FALSE]

\* Arguments of set-tenant.
TenantArgs == {<<2, "Acme">>}

Queries == {"SELECT 1"}
Recordsets == {"recordset"}

\* Messages of the errors the external collaborators raise.
ConnectErrors == {"Login failed for user", "Failed to connect: ETIMEOUT"}
QueryErrors == {"Invalid object name"}
ClosedError == "Connection is closed."
WriteError == "EROFS: read-only file system, open"
UnlinkError == "EPERM: operation not permitted, unlink"

\* In-flight connect-database requests (one slot per pending invoke).
Calls == {"r1", "r2"}

\* ----------------------------------------------------------------- state

VARIABLES
  running,          \* the main process is alive
  windowOpen,       \* mainWindow exists (a renderer can send requests)
  platform,         \* process.platform
  dbConnection,     \* 0 for null, else the handle it references
  currentTenant,    \* None or Some([id, name])
  currentDatabase,  \* None or Some(display name)
  handles,          \* the driver's view of every handle
  call,             \* per request slot: position in the connect handler
  encAvail,         \* safeStorage.isEncryptionAvailable()
  credentialsFile,  \* None or Some(content of credentials.dat)
  windowStateFile,  \* None or Some(content of windowstate.json)
  displays,         \* screen.getAllDisplays(), the first one primary
  mainWindow,       \* the window's bounds and whether it is resizable
  last,             \* the latest step: its operation, result and environment
  connected,        \* some connect-database response carried success: true
  stored,           \* what the vault was last told: stored record / cleared
  saved,            \* what the latest saveWindowState was given, if it wrote
  solutionConfig,   \* None or Some(content of ~/.janus-config.json)
  tree,             \* the entries of the directory the solution path names
  form,             \* the login page: its fields, button and message
  invokes,          \* connect-database invocations the login page awaits
  chat              \* the DynamoDB chat interface and its agent

connVars ==
  <<dbConnection, currentTenant, currentDatabase, handles, call, connected>>
vaultVars == <<encAvail, credentialsFile, stored>>
winVars == <<windowStateFile, displays, mainWindow, saved>>
procVars == <<running, windowOpen, platform>>
searchVars == <<solutionConfig, tree>>
formVars == <<form, invokes>>
otherVars == <<searchVars, formVars, chat>>
vars == <<procVars, connVars, vaultVars, winVars, otherVars, last>>

\* The source search has not been configured and there is nothing to walk.
SearchIdle ==
  /\ solutionConfig = None
  /\ tree = [exists |-> FALSE, entries |-> <<>>]

\* No login page is being looked at.
FormIdle ==
  /\ form = [page |-> "none"]
  /\ invokes = <<>>

\* No chat interface has been created.
ChatIdle == chat = [phase |-> "none"]

\* --------------------------------------------------- results of a handler

Returned(v) == [threw |-> FALSE, v |-> v]
Threw(msg) == [threw |-> TRUE, v |-> msg]

\* What the environment did during a step: the driver's reply (and the handle
\* it concerned) and the file system's reply.
NoEnv == [driver |-> "", handle |-> 0, fs |-> ""]
Step(op, arg, val, env) == [op |-> op, arg |-> arg, val |-> val, env |-> env]

\* ------------------------------------------------ JSON and safeStorage

\* A JavaScript object is its members in insertion order; a member is its
\* key, the type of its value and the value.
Member(key, type, value) == [k |-> key, t |-> type, v |-> value]

\* obj[key] of a member the object has.
Prop(obj, key) ==
  LET hits == {i \in 1 .. Len(obj) : obj[i].k = key}
  IN  obj[CHOOSE i \in hits : \A j \in hits : j <= i].v

RECURSIVE DropUndefined(_)
DropUndefined(obj) ==
  IF obj = <<>> THEN <<>>
  ELSE IF Head(obj).t = "undefined" THEN DropUndefined(Tail(obj))
       ELSE <<Head(obj)>> \o DropUndefined(Tail(obj))

\* JSON.stringify of an object: members whose value is undefined are left out.
JSONStringify(obj) ==
  [wellFormed |-> TRUE, type |-> "object", members |-> DropUndefined(obj)]

\* Texts that are not JSON, and the JSON text of null.
NotJSON == [wellFormed |-> FALSE, type |-> "", members |-> <<>>]
JSONNull == [wellFormed |-> TRUE, type |-> "null", members |-> <<>>]

\* JSON.parse: throws on a text that is not JSON.
JSONParse(text) ==
  IF text.wellFormed
    THEN Returned([type |-> text.type, members |-> text.members])
    ELSE Threw("Unexpected token in JSON")

\* safeStorage: a blob decrypts only under the key that made it.
OSKey == "os-key"
EncryptString(text) == [key |-> OSKey, text |-> text]
DecryptString(blob) ==
  IF blob.key = OSKey THEN Returned(blob.text)
  ELSE Threw("Error while decrypting the ciphertext provided to safeStorage.decryptString.")

\* ------------------------------------------------- connect-database

DefaultTenant == [id |-> 1, name |-> "Default Tenant"]

\* currentTenant = { id: 1, name: 'Default Tenant' }, whatever it was.
TenantKeptOnConnect(previous) ==
  IF previous = None THEN Some(DefaultTenant) ELSE previous
TenantClearedOnConnect(previous) == None
TenantOnConnect(previous) == Some(DefaultTenant)

DisplayName(config) == config.server \o "\\" \o config.database

\* The credentials object literal of the handler.
CredentialsWithoutPassword(config) ==
  << Member("server", "string", config.server),
     Member("database", "string", config.database),
     Member("username", "string", config.username) >>
Credentials(config) ==
  << Member("server", "string", config.server),
     Member("database", "string", config.database),
     Member("username", "string", config.username),
     Member("password", "string", config.password) >>

SaveRequestedUnchecked(config, avail) == config.saveCredentials
SaveRequestedWithoutOptIn(config, avail) == avail
SaveRequested(config, avail) == config.saveCredentials /\ avail

\* if (dbConnection) ...
HasConnectionIgnored(dbc) == FALSE
HasConnection(dbc) == dbc # 0

\* close() on a handle: an open pool starts closing, anything else stays.
CloseHandle(hs, h) ==
  [hs EXCEPT ![h] = IF @ = "open" THEN "closing" ELSE @]

IdleCall == [pc |-> "idle", config |-> NoConfig, h |-> 0]

NoConnectInFlight == \A c \in Calls : call[c].pc = "idle"

\* The handler up to its first await: close the old connection, or go
\* straight to sql.connect.
ConnectBegin(c, config) ==
  /\ running /\ windowOpen
  /\ call[c].pc = "idle"
  /\ IF HasConnection(dbConnection)
       THEN /\ handles' = CloseHandle(handles, dbConnection)
            /\ call' = [call EXCEPT ![c] =
                 [pc |-> "closing", config |-> config, h |-> dbConnection]]
       ELSE /\ handles' = handles
            /\ call' = [call EXCEPT ![c] =
                 [pc |-> "connecting", config |-> config, h |-> 0]]
  /\ last' = Step("connect-database:begin", config, Returned(None), NoEnv)
  /\ UNCHANGED otherVars
  /\ UNCHANGED <<procVars, dbConnection, currentTenant, currentDatabase,
                 connected, vaultVars, winVars>>

\* The driver finishes closing a pool.
DriverCloseDone(h) ==
  /\ running
  /\ handles[h] = "closing"
  /\ handles' = [handles EXCEPT ![h] = "closed"]
  /\ last' = Step("driver:closed", h, Returned(None), NoEnv)
  /\ UNCHANGED otherVars
  /\ UNCHANGED <<procVars, dbConnection, currentTenant, currentDatabase, call,
                 connected, vaultVars, winVars>>

\* await dbConnection.close() resumes; sql.connect is called.
ConnectCloseDone(c) ==
  /\ running
  /\ call[c].pc = "closing"
  /\ handles[call[c].h] = "closed"
  /\ call' = [call EXCEPT ![c].pc = "connecting"]
  /\ last' = Step("connect-database:closed", call[c].config, Returned(None), NoEnv)
  /\ UNCHANGED otherVars
  /\ UNCHANGED <<procVars, dbConnection, currentTenant, currentDatabase, handles,
                 connected, vaultVars, winVars>>

FreshHandle == CHOOSE h \in Handles :
  handles[h] = "unused" /\ \A g \in Handles : handles[g] = "unused" => h <= g

\* await sql.connect(...) rejects: the catch block answers.
ConnectRefusedForgetsContext(c, msg) ==
  /\ running
  /\ call[c].pc = "connecting"
  /\ call' = [call EXCEPT ![c] = IdleCall]
  /\ currentDatabase' = None
  /\ currentTenant' = None
  /\ last' = Step("connect-database", call[c].config,
                  Returned([success |-> FALSE, error |-> msg]),
                  [driver |-> msg, handle |-> 0, fs |-> ""])
  /\ UNCHANGED otherVars
  /\ UNCHANGED <<procVars, dbConnection, handles, connected, vaultVars, winVars>>
ConnectRefused(c, msg) ==
  /\ running
  /\ call[c].pc = "connecting"
  /\ call' = [call EXCEPT ![c] = IdleCall]
  /\ last' = Step("connect-database", call[c].config,
                  Returned([success |-> FALSE, error |-> msg]),
                  [driver |-> msg, handle |-> 0, fs |-> ""])
  /\ UNCHANGED otherVars
  /\ UNCHANGED <<procVars, dbConnection, currentTenant, currentDatabase, handles,
                 connected, vaultVars, winVars>>

\* await sql.connect(...) resolves with a new pool; the rest of the try block.
\* write is the outcome of fs.writeFileSync, should it be called.
ConnectEstablished(c, write) ==
  LET config == call[c].config
      h == FreshHandle
      save == SaveRequested(config, encAvail)
      encrypted == EncryptString(JSONStringify(Credentials(config)))
      failed == save /\ write # "ok"
  IN
  /\ running
  /\ call[c].pc = "connecting"
  /\ \E g \in Handles : handles[g] = "unused"
  /\ write \in (IF save THEN {"ok", WriteError} ELSE {"ok"})
  /\ handles' = [handles EXCEPT ![h] = "open"]
  /\ dbConnection' = h
  /\ currentDatabase' = Some(DisplayName(config))
  /\ currentTenant' = TenantOnConnect(currentTenant)
  /\ IF save /\ ~failed
       THEN /\ credentialsFile' = Some(encrypted)
            /\ stored' = [kind |-> "stored", creds |-> config]
       ELSE UNCHANGED <<credentialsFile, stored>>
  /\ call' = [call EXCEPT ![c] = IdleCall]
  /\ connected' = (connected \/ ~failed)
  /\ last' = Step("connect-database", config,
                  IF failed
                    THEN Returned([success |-> FALSE, error |-> write])
                    ELSE Returned([success |-> TRUE,
                                   database |-> DisplayName(config)]),
                  [driver |-> "ok", handle |-> h,
                   fs |-> IF save THEN write ELSE ""])
  /\ UNCHANGED otherVars
  /\ UNCHANGED <<procVars, encAvail, winVars>>

\* ---------------------------------------------------- execute-query

NoConnectionError == "No database connection"

\* if (!dbConnection) throw ...
MustThrowNoConnection(dbc) == dbc = 0

\* The console.log calls of the try block and of the catch block, one entry
\* per call (the time stamp in the banner is left out).
QueryLog(query) ==
  << [label |-> "=== SQL QUERY ===", text |-> ""],
     [label |-> "Query:", text |-> query],
     [label |-> "===", text |-> ""] >>
ErrorLog(query, msg) ==
  << [label |-> "=== SQL ERROR ===", text |-> ""],
     [label |-> "Query:", text |-> query],
     [label |-> "Error:", text |-> msg],
     [label |-> "===", text |-> ""] >>

QueryEnv(driver, handle, log) ==
  [driver |-> driver, handle |-> handle, fs |-> "", log |-> log]

\* reply is what the driver answers when the query reaches an open pool.
ExecuteQuery(query, reply) ==
  /\ running /\ windowOpen
  /\ reply \in Recordsets \cup QueryErrors
  /\ last' =
       IF MustThrowNoConnection(dbConnection)
         THEN Step("execute-query", query,
                   Returned([success |-> FALSE, error |-> NoConnectionError]),
                   QueryEnv("", 0, ErrorLog(query, NoConnectionError)))
         ELSE IF handles[dbConnection] # "open"
           THEN Step("execute-query", query,
                     Returned([success |-> FALSE, error |-> ClosedError]),
                     QueryEnv(ClosedError, dbConnection,
                              QueryLog(query) \o ErrorLog(query, ClosedError)))
           ELSE Step("execute-query", query,
                     IF reply \in Recordsets
                       THEN Returned([success |-> TRUE, data |-> reply])
                       ELSE Returned([success |-> FALSE, error |-> reply]),
                     QueryEnv(reply, dbConnection,
                              IF reply \in Recordsets THEN QueryLog(query)
                              ELSE QueryLog(query) \o ErrorLog(query, reply)))
  /\ UNCHANGED otherVars
  /\ UNCHANGED <<procVars, connVars, vaultVars, winVars>>

\* ------------------------------------------- set-tenant, get-context

SetTenant(tenantId, tenantName) ==
  /\ running /\ windowOpen
  /\ currentTenant' = Some([id |-> tenantId, name |-> tenantName])
  /\ last' = Step("set-tenant", <<tenantId, tenantName>>,
                  Returned([success |-> TRUE]), NoEnv)
  /\ UNCHANGED otherVars
  /\ UNCHANGED <<procVars, dbConnection, currentDatabase, handles, call,
                 connected, vaultVars, winVars>>

GetContext ==
  /\ running /\ windowOpen
  /\ last' = Step("get-context", None,
                  Returned([database |-> currentDatabase,
                            tenant |-> currentTenant]), NoEnv)
  /\ UNCHANGED otherVars
  /\ UNCHANGED <<procVars, connVars, vaultVars, winVars>>

\* ------------------------------- load-credentials, clear-credentials

\* The try block of load-credentials; a throw leaves it.
TryLoadCredentials(file, avail) ==
  IF file # None /\ avail
    THEN LET decrypted == DecryptString(file[1])
         IN  IF decrypted.threw THEN decrypted
             ELSE LET parsed == JSONParse(decrypted.v)
                  IN  IF parsed.threw THEN parsed
                      ELSE IF parsed.v.type = "null" THEN Returned(None)
                      ELSE Returned(Some(parsed.v.members))
    ELSE Returned(None)

\* catch (error) { console.error(...) } return null
CatchReturnNull(r) == IF r.threw THEN Returned(None) ELSE r

LoadCredentialsResult(file, avail) ==
  CatchReturnNull(TryLoadCredentials(file, avail))

LoadCredentials ==
  /\ running /\ windowOpen
  /\ last' = Step("load-credentials", None,
                  LoadCredentialsResult(credentialsFile, encAvail), NoEnv)
  /\ UNCHANGED otherVars
  /\ UNCHANGED <<procVars, connVars, vaultVars, winVars>>

\* if (fs.existsSync(credentialsPath))
MustUnlinkAlways(file) == TRUE
MustUnlink(file) == file # None

\* unlink is the outcome of fs.unlinkSync, should it be called.
ClearCredentials(unlink) ==
  LET called == MustUnlink(credentialsFile)
      failed == called /\ unlink # "ok"
  IN
  /\ running /\ windowOpen
  /\ unlink \in (IF called THEN {"ok", UnlinkError} ELSE {"ok"})
  /\ IF failed
       THEN UNCHANGED <<credentialsFile, stored>>
       ELSE /\ credentialsFile' = IF called THEN None ELSE credentialsFile
            /\ stored' = [stored EXCEPT !.kind = "cleared"]
  /\ last' = Step("clear-credentials", None,
                  IF failed
                    THEN Returned([success |-> FALSE, error |-> unlink])
                    ELSE Returned([success |-> TRUE]),
                  [driver |-> "", handle |-> 0,
                   fs |-> IF called THEN unlink ELSE ""])
  /\ UNCHANGED otherVars
  /\ UNCHANGED <<procVars, connVars, encAvail, winVars>>

\* ------------------------------------------------- window-all-closed

\* The last window is gone: close the connection without waiting, and quit
\* unless on macOS.
WindowAllClosed ==
  /\ running /\ windowOpen
  /\ windowOpen' = FALSE
  /\ handles' = IF HasConnection(dbConnection)
                  THEN CloseHandle(handles, dbConnection) ELSE handles
  /\ running' = (platform = "darwin")
  /\ last' = Step("window-all-closed", None, Returned(None), NoEnv)
  /\ UNCHANGED otherVars
  /\ UNCHANGED <<platform, dbConnection, currentTenant, currentDatabase, call,
                 connected, vaultVars, winVars>>

\* ------------------------------------------------ window-state store

DefaultWidth == 450
DefaultHeight == 600
MainAppWidth == 1200
MainAppHeight == 800

Rect(x, y, w, h) == [x |-> x, y |-> y, width |-> w, height |-> h]

\* Displays that can be attached; the first of an arrangement is the primary.
Desktop == [bounds |-> Rect(0, 0, 1920, 1080),
            workAreaSize |-> [width |-> 1920, height |-> 1040]]
Laptop == [bounds |-> Rect(0, 0, 1366, 768),
           workAreaSize |-> [width |-> 1366, height |-> 727]]
External == [bounds |-> Rect(1920, 0, 1280, 1024),
             workAreaSize |-> [width |-> 1280, height |-> 984]]
Projector == [bounds |-> Rect(0, 0, 800, 600),
              workAreaSize |-> [width |-> 800, height |-> 561]]
DisplayArrangements ==
  {<<Desktop>>, <<Desktop, External>>, <<Laptop>>, <<Projector>>}

\* Where the user can drop the window, and the sizes they can give it.
Positions ==
  {<<100, 100>>, <<1366, 100>>, <<1920, 100>>, <<3199, 1023>>, <<3200, 100>>,
   <<100, 768>>, <<100, 1080>>, <<-8, -8>>}
Sizes == {<<1000, 700>>}

\* The object mainWindow.getBounds() returns.
BoundsObjectPositionOnly(w) ==
  << Member("x", "number", w.x), Member("y", "number", w.y) >>
BoundsObject(w) ==
  << Member("x", "number", w.x), Member("y", "number", w.y),
     Member("width", "number", w.width), Member("height", "number", w.height) >>

\* Math.round(n / 2) for an integer n: halves round towards +infinity.
MathRoundHalf(n) == (n + 1) \div 2

\* The default: centred on the primary display's work area.
DefaultWindowState(primaryDisplay) ==
  << Member("x", "number", MathRoundHalf(primaryDisplay.workAreaSize.width - DefaultWidth)),
     Member("y", "number", MathRoundHalf(primaryDisplay.workAreaSize.height - DefaultHeight)),
     Member("width", "number", DefaultWidth),
     Member("height", "number", DefaultHeight) >>

\* a >= b and a < b of JavaScript: false when a is not a number.
TypeOf(obj, key) ==
  LET hits == {i \in 1 .. Len(obj) : obj[i].k = key}
  IN  IF hits = {} THEN "undefined"
      ELSE obj[CHOOSE i \in hits : \A j \in hits : j <= i].t
IsNumber(obj, key) == TypeOf(obj, key) = "number"
LessOrEqual(obj, key, n) == IsNumber(obj, key) /\ Prop(obj, key) <= n
GreaterEq(obj, key, n) == IsNumber(obj, key) /\ Prop(obj, key) >= n
Less(obj, key, n) == IsNumber(obj, key) /\ Prop(obj, key) < n

\* The callback of displays.find.
OnDisplay(state, display) ==
  /\ GreaterEq(state, "x", display.bounds.x)
  /\ Less(state, "x", display.bounds.x + display.bounds.width)
  /\ GreaterEq(state, "y", display.bounds.y)
  /\ Less(state, "y", display.bounds.y + display.bounds.height)

\* The try block of loadWindowState: the saved state if it is on a display,
\* None when the block falls through, a throw when it is left by one.
TryLoadWindowState(file, ds) ==
  IF file # None
    THEN LET parsed == JSONParse(file[1])
         IN  IF parsed.threw THEN parsed
             ELSE IF parsed.v.type = "null"
               THEN Threw("Cannot read properties of null (reading 'x')")
             ELSE IF \E i \in 1 .. Len(ds) : OnDisplay(parsed.v.members, ds[i])
               THEN Returned(Some(parsed.v.members))
             ELSE Returned(None)
    ELSE Returned(None)

\* catch (error) { console.error(...) }: execution goes on after the block.
CatchFallThrough(r) == IF r.threw THEN Returned(None) ELSE r

loadWindowState(file, ds) ==
  LET r == CatchFallThrough(TryLoadWindowState(file, ds))
  IN  IF r.threw THEN r
      ELSE IF r.v # None THEN Returned(r.v[1])
      ELSE Returned(DefaultWindowState(ds[1]))

\* windowState.width || 450
OrDefault(obj, key, default) ==
  IF IsNumber(obj, key) /\ Prop(obj, key) # 0 THEN Prop(obj, key) ELSE default

\* new BrowserWindow({...}) of createWindow.
NewBrowserWindow(state) ==
  [x |-> Prop(state, "x"), y |-> Prop(state, "y"),
   width |-> OrDefault(state, "width", DefaultWidth),
   height |-> OrDefault(state, "height", DefaultHeight),
   resizable |-> FALSE]

\* saveWindowState with the window as it will be after the event; write is
\* the outcome of fs.writeFileSync.
saveWindowState(window, write) ==
  /\ write \in {"ok", WriteError}
  /\ IF write = "ok"
       THEN /\ windowStateFile' = Some(JSONStringify(BoundsObject(window)))
            /\ saved' = Some(Rect(window.x, window.y, window.width, window.height))
       ELSE /\ windowStateFile' = windowStateFile
            /\ saved' = None

\* mainWindow.on('moved', saveWindowState)
Moved(pos, write) ==
  /\ running /\ windowOpen
  /\ mainWindow' = [mainWindow EXCEPT !.x = pos[1], !.y = pos[2]]
  /\ saveWindowState(mainWindow', write)
  /\ last' = Step("moved", pos, Returned(None),
                  [driver |-> "", handle |-> 0, fs |-> write])
  /\ UNCHANGED otherVars
  /\ UNCHANGED <<procVars, connVars, vaultVars, displays>>

\* mainWindow.on('resized', saveWindowState)
Resized(size, write) ==
  /\ running /\ windowOpen
  /\ mainWindow.resizable
  /\ mainWindow' = [mainWindow EXCEPT !.width = size[1], !.height = size[2]]
  /\ saveWindowState(mainWindow', write)
  /\ last' = Step("resized", size, Returned(None),
                  [driver |-> "", handle |-> 0, fs |-> write])
  /\ UNCHANGED otherVars
  /\ UNCHANGED <<procVars, connVars, vaultVars, displays>>

\* show-main-app: grow the window, make it resizable, save its state.
ShowMainApp(write) ==
  /\ running /\ windowOpen
  /\ mainWindow' = [mainWindow EXCEPT !.width = MainAppWidth,
                                      !.height = MainAppHeight,
                                      !.resizable = TRUE]
  /\ saveWindowState(mainWindow', write)
  /\ last' = Step("show-main-app", None, Returned(None),
                  [driver |-> "", handle |-> 0, fs |-> write])
  /\ UNCHANGED otherVars
  /\ UNCHANGED <<procVars, connVars, vaultVars, displays>>

\* A display is attached or detached, while the application runs or not.
DisplaysChange(ds) ==
  /\ ds \in DisplayArrangements
  /\ ds # displays
  /\ displays' = ds
  /\ last' = Step("display-change", None, Returned(None), NoEnv)
  /\ UNCHANGED otherVars
  /\ UNCHANGED <<procVars, connVars, vaultVars, windowStateFile, mainWindow, saved>>

\* ------------------------------------------------------ process life

\* The user quits the application (no window-all-closed is emitted then).
Quit ==
  /\ running
  /\ running' = FALSE
  /\ windowOpen' = FALSE
  /\ last' = Step("quit", None, Returned(None), NoEnv)
  /\ UNCHANGED otherVars
  /\ UNCHANGED <<platform, connVars, vaultVars, winVars>>

NoHandles == [h \in Handles |-> "unused"]
NoCalls == [c \in Calls |-> IdleCall]

\* The globals of a new process, and app.whenReady().then(createWindow).
Launch ==
  LET state == loadWindowState(windowStateFile, displays)
  IN
  /\ ~running
  /\ running' = TRUE
  /\ windowOpen' = TRUE
  /\ dbConnection' = 0
  /\ currentTenant' = None
  /\ currentDatabase' = None
  /\ handles' = NoHandles
  /\ call' = NoCalls
  /\ connected' = FALSE
  /\ mainWindow' = IF state.threw THEN mainWindow ELSE NewBrowserWindow(state.v)
  /\ last' = Step("createWindow", None, state, NoEnv)
  /\ UNCHANGED otherVars
  /\ UNCHANGED <<platform, vaultVars, windowStateFile, displays, saved>>

\* What a first launch can find on disk.
SomeConfig == CHOOSE config \in Configs : config.saveCredentials
InitialCredentialsFiles ==
  { None,
    Some([key |-> "another-key", text |-> JSONStringify(Credentials(SomeConfig))]),
    Some(EncryptString(NotJSON)),
    Some(EncryptString(JSONStringify(Credentials(SomeConfig)))) }
InitialWindowStateFiles ==
  { None, Some(NotJSON), Some(JSONNull), Some(JSONStringify(<<>>)),
    Some(JSONStringify(BoundsObject(Rect(1920, 100, MainAppWidth, MainAppHeight)))) }

\* The state once the first window exists.
Launched(file, ds) ==
  LET state == loadWindowState(file, ds)
  IN
  /\ running = TRUE
  /\ windowOpen = TRUE
  /\ dbConnection = 0
  /\ currentTenant = None
  /\ currentDatabase = None
  /\ handles = NoHandles
  /\ call = NoCalls
  /\ connected = FALSE
  /\ stored = [kind |-> "unknown", creds |-> NoConfig]
  /\ windowStateFile = file
  /\ displays = ds
  /\ mainWindow = NewBrowserWindow(state.v)
  /\ saved = None
  /\ last = Step("createWindow", None, state, NoEnv)

\* ---------------------------------------------------- specifications

\* The connection manager and the vault; connect-database requests are
\* handled one after another, everything else may come at any await.
Init ==
  /\ platform \in {"darwin", "win32"}
  /\ encAvail \in BOOLEAN
  /\ credentialsFile \in InitialCredentialsFiles
  /\ Launched(None, <<Desktop>>)
  /\ SearchIdle
  /\ FormIdle
  /\ ChatIdle

ConnectBeginInTurn(config) ==
  /\ NoConnectInFlight
  /\ ConnectBegin("r1", config)

Next ==
  \/ \E config \in Configs : ConnectBeginInTurn(config)
  \/ \E h \in Handles : DriverCloseDone(h)
  \/ \E c \in Calls : ConnectCloseDone(c)
  \/ \E c \in Calls, msg \in ConnectErrors : ConnectRefused(c, msg)
  \/ \E c \in Calls, write \in {"ok", WriteError} : ConnectEstablished(c, write)
  \/ \E query \in Queries, reply \in Recordsets \cup QueryErrors :
       ExecuteQuery(query, reply)
  \/ \E t \in TenantArgs : SetTenant(t[1], t[2])
  \/ GetContext
  \/ LoadCredentials
  \/ \E unlink \in {"ok", UnlinkError} : ClearCredentials(unlink)
  \/ WindowAllClosed

Spec == Init /\ [][Next]_vars

\* The window-state store over launches, moves, resizes and display changes.
InitWindow ==
  /\ platform \in {"darwin", "win32"}
  /\ encAvail = TRUE
  /\ credentialsFile = None
  /\ \E file \in InitialWindowStateFiles, ds \in DisplayArrangements :
       Launched(file, ds)
  /\ SearchIdle
  /\ FormIdle
  /\ ChatIdle

NextWindow ==
  \/ \E pos \in Positions, write \in {"ok", WriteError} : Moved(pos, write)
  \/ \E size \in Sizes, write \in {"ok", WriteError} : Resized(size, write)
  \/ \E write \in {"ok", WriteError} : ShowMainApp(write)
  \/ \E ds \in DisplayArrangements : DisplaysChange(ds)
  \/ WindowAllClosed
  \/ Quit
  \/ Launch

SpecWindow == InitWindow /\ [][NextWindow]_vars

\* ------------------------------------------------------ source search

\* A name, a line and a search text are sequences of characters.
\* s.toLowerCase()
ToLowerCase(s) ==
  [i \in 1 .. Len(s) |->
     CASE s[i] = "F" -> "f" [] s[i] = "O" -> "o" [] s[i] = "B" -> "b"
       [] OTHER -> s[i]]

\* s.includes(t)
Includes(s, t) ==
  \E k \in 0 .. Len(s) - Len(t) : SubSeq(s, k + 1, k + Len(t)) = t

\* s.startsWith(t), s.endsWith(t)
StartsWith(s, t) == Len(s) >= Len(t) /\ SubSeq(s, 1, Len(t)) = t
EndsWith(s, t) == Len(s) >= Len(t) /\ SubSeq(s, Len(s) - Len(t) + 1, Len(s)) = t

\* s.trim()
RECURSIVE TrimStart(_)
TrimStart(s) ==
  IF s # <<>> /\ Head(s) \in {" ", "\t", "\r"} THEN TrimStart(Tail(s)) ELSE s
RECURSIVE TrimEnd(_)
TrimEnd(s) ==
  IF s # <<>> /\ s[Len(s)] \in {" ", "\t", "\r"}
    THEN TrimEnd(SubSeq(s, 1, Len(s) - 1)) ELSE s
Trim(s) == TrimEnd(TrimStart(s))

Max(a, b) == IF a >= b THEN a ELSE b
Min(a, b) == IF a <= b THEN a ELSE b

\* results.slice(0, 50)
MaxResults == 50
SliceOneLess(results) == SubSeq(results, 1, Min(Len(results), MaxResults - 1))
Slice(results) == SubSeq(results, 1, Min(Len(results), MaxResults))

\* A directory entry: a file with its lines, or a directory with its entries
\* in the order readdirSync lists them. stat and read tell whether
\* fs.statSync and fs.readFileSync succeed on it.
File(name, lines) ==
  [name |-> name, type |-> "file", stat |-> "ok", read |-> "ok",
   lines |-> lines, entries |-> <<>>]
Dir(name, entries) ==
  [name |-> name, type |-> "dir", stat |-> "ok", read |-> "EISDIR",
   lines |-> <<>>, entries |-> entries]
DanglingLink(name) ==
  [name |-> name, type |-> "file", stat |-> "ENOENT", read |-> "ENOENT",
   lines |-> <<>>, entries |-> <<>>]
Locked(file) == [file EXCEPT !.read = "EACCES"]

\* !file.startsWith('.') && file !== 'bin' && file !== 'obj'
RecursedIntoBin(name) ==
  ~StartsWith(name, <<".">>) /\ name # <<"o", "b", "j">>
RecursedInto(name) ==
  /\ ~StartsWith(name, <<".">>)
  /\ name # <<"b", "i", "n">>
  /\ name # <<"o", "b", "j">>

\* The context of the match on lines[index + 1] (index is 0-based).
Context(lines, index) ==
  LET start == Max(0, index - 2)
      slice == SubSeq(lines, start + 1, Min(Len(lines), index + 3))
  IN  [i \in 1 .. Len(slice) |->
         [lineNumber |-> start + (i - 1) + 1,
          content |-> Trim(slice[i]),
          isMatch |-> (i - 1 = 2)]]

\* lines.forEach(...): the matches of one file, in line order.
RECURSIVE MatchesFrom(_, _, _, _)
MatchesFrom(filePath, lines, searchText, index) ==
  IF index >= Len(lines) THEN <<>>
  ELSE (IF Includes(ToLowerCase(lines[index + 1]), ToLowerCase(searchText))
          THEN << [file |-> filePath, line |-> index + 1,
                   content |-> Trim(lines[index + 1]),
                   context |-> Context(lines, index)] >>
          ELSE <<>>)
       \o MatchesFrom(filePath, lines, searchText, index + 1)

\* The try block around one file: a failing read skips the file.
ReadAndMatch(filePath, entry, searchText) ==
  IF entry.read # "ok" THEN <<>>
  ELSE MatchesFrom(filePath, entry.lines, searchText, 0)

NoWalk == [threw |-> FALSE, error |-> "", results |-> <<>>, visited |-> <<>>]

\* searchInDirectory(dir) over the entries left to visit; walk holds the
\* results pushed and the paths statted so far. A failing statSync leaves
\* the whole walk by a throw.
RECURSIVE searchInDirectory(_, _, _, _)
searchInDirectory(dir, files, searchText, walk) ==
  IF walk.threw \/ files = <<>> THEN walk
  ELSE
    LET entry == Head(files)
        filePath == Append(dir, entry.name)
        seen == [walk EXCEPT !.visited = Append(@, filePath)]
    IN  IF entry.stat # "ok"
          THEN [seen EXCEPT !.threw = TRUE, !.error = entry.stat]
        ELSE IF entry.type = "dir" /\ RecursedInto(entry.name)
          THEN searchInDirectory(dir, Tail(files), searchText,
                 searchInDirectory(filePath, entry.entries, searchText, seen))
        ELSE IF EndsWith(entry.name, <<".", "c", "s">>)
          THEN searchInDirectory(dir, Tail(files), searchText,
                 [seen EXCEPT !.results =
                    @ \o ReadAndMatch(filePath, entry, searchText)])
        ELSE searchInDirectory(dir, Tail(files), searchText, seen)

\* if (!config.solutionPath): undefined, null and '' are falsy.
HasSolutionPath(config) ==
  /\ TypeOf(config, "solutionPath") = "string"
  /\ Prop(config, "solutionPath") # ""

NotConfiguredError == "Solution path not configured"
NoSuchFileError == "ENOENT: no such file or directory"

\* fs.readFileSync(configPath, 'utf8') and JSON.parse of it.
ReadConfig(file) ==
  IF file = None THEN Threw(NoSuchFileError) ELSE JSONParse(file[1])

\* The handler's result and the walk it made.
SearchResult(file, root, searchText) ==
  LET parsed == ReadConfig(file)
  IN  IF parsed.threw
        THEN [val |-> Returned([success |-> FALSE, error |-> parsed.v]),
              walk |-> NoWalk]
      ELSE IF parsed.v.type = "null"
        THEN [val |-> Returned([success |-> FALSE, error |-> "Cannot read properties of null"]),
              walk |-> NoWalk]
      ELSE IF ~HasSolutionPath(parsed.v.members)
        THEN [val |-> Returned([success |-> FALSE, error |-> NotConfiguredError]),
              walk |-> NoWalk]
      ELSE IF ~root.exists
        THEN [val |-> Returned([success |-> FALSE, error |-> NoSuchFileError]),
              walk |-> NoWalk]
      ELSE LET walk == searchInDirectory(
                         <<Prop(parsed.v.members, "solutionPath")>>,
                         root.entries, searchText, NoWalk)
           IN  IF walk.threw
                 THEN [val |-> Returned([success |-> FALSE, error |-> walk.error]),
                       walk |-> walk]
                 ELSE [val |-> Returned([success |-> TRUE,
                                         results |-> Slice(walk.results)]),
                       walk |-> walk]

SearchSourceFiles(searchText) ==
  LET r == SearchResult(solutionConfig, tree, searchText)
  IN
  /\ running /\ windowOpen
  /\ last' = Step("search-source-files", searchText, r.val,
                  [driver |-> "", handle |-> 0, fs |-> "",
                   visited |-> r.walk.visited])
  /\ UNCHANGED <<procVars, connVars, vaultVars, winVars, otherVars>>

\* obj[key] = value: in place when the object has the key, appended otherwise.
SetProp(obj, member) ==
  IF \E i \in 1 .. Len(obj) : obj[i].k = member.k
    THEN [i \in 1 .. Len(obj) |-> IF obj[i].k = member.k THEN member ELSE obj[i]]
    ELSE Append(obj, member)

SaveSolutionPath(path, write) ==
  LET parsed == ReadConfig(solutionConfig)
      config == IF parsed.threw THEN [type |-> "object", members |-> <<>>]
                ELSE parsed.v
      text == JSONStringify(
                SetProp(config.members, Member("solutionPath", "string", path)))
  IN
  /\ running /\ windowOpen
  /\ IF config.type = "null"
       THEN /\ solutionConfig' = solutionConfig
            /\ last' = Step("save-solution-path", path,
                            Returned([success |-> FALSE, error |-> "Cannot set properties of null"]),
                            NoEnv)
       ELSE IF write # "ok"
         THEN /\ solutionConfig' = solutionConfig
              /\ last' = Step("save-solution-path", path,
                              Returned([success |-> FALSE, error |-> write]),
                              [driver |-> "", handle |-> 0, fs |-> write])
         ELSE /\ solutionConfig' = Some(text)
              /\ last' = Step("save-solution-path", path,
                              Returned([success |-> TRUE]),
                              [driver |-> "", handle |-> 0, fs |-> "ok"])
  /\ UNCHANGED <<procVars, connVars, vaultVars, winVars, tree, formVars, chat>>

LoadSolutionPath ==
  LET parsed == ReadConfig(solutionConfig)
  IN
  /\ running /\ windowOpen
  /\ last' = Step("load-solution-path", None,
                  Returned([success |-> TRUE,
                            path |-> IF ~parsed.threw /\ parsed.v.type # "null"
                                        /\ HasSolutionPath(parsed.v.members)
                                       THEN Prop(parsed.v.members, "solutionPath")
                                       ELSE ""]),
                  NoEnv)
  /\ UNCHANGED <<procVars, connVars, vaultVars, winVars, otherVars>>

\* The sources the walks of the model run over.
FooLine == <<"f", "o", "o">>
SourceTree(kind) ==
  LET other == <<"x">>
      cs(ch) == <<ch, ".", "c", "s">>
      bin == <<"b", "i", "n">>
      sub == <<"s", "u", "b">>
      a == File(cs("a"), << <<" ", "F", "o", "o", "\t">>, other, other >>)
      b == File(cs("b"), <<other, <<>>, other, FooLine, other, other, FooLine>>)
      foo(ch) == File(cs(ch), <<FooLine>>)
      many == File(cs("m"), [i \in 1 .. MaxResults + 2 |-> FooLine])
      broken == DanglingLink(cs("k"))
      plain ==
        << a,
           Dir(bin, <<foo("x")>>),
           Dir(sub, << b,
                       Dir(<<"o", "b", "j">>, <<foo("d")>>),
                       Dir(<<"B", "i", "n">>, <<foo("e")>>),
                       Dir(<<"l", "i", "b">>, <<Dir(bin, <<foo("y")>>)>>) >>),
           Dir(<<".", "g", "i", "t">>, <<foo("c")>>),
           Dir(<<".", "v", ".", "c", "s">>, <<foo("v")>>),
           File(<<"r", ".", "m", "d">>, <<FooLine>>),
           foo("z") >>
  IN  CASE kind = "none" -> [exists |-> FALSE, entries |-> <<>>]
        [] kind = "empty" -> [exists |-> TRUE, entries |-> <<>>]
        [] kind = "plain" -> [exists |-> TRUE, entries |-> plain]
        [] kind = "big" ->
             [exists |-> TRUE, entries |-> <<many, Dir(sub, <<b>>)>>]
        [] kind = "broken" -> [exists |-> TRUE, entries |-> <<a, broken, b>>]
        [] kind = "locked" ->
             [exists |-> TRUE, entries |-> <<a, Locked(foo("l")), b>>]
        [] kind = "big-broken" -> [exists |-> TRUE, entries |-> <<many, broken>>]
SourceTrees ==
  { SourceTree(kind) :
      kind \in {"none", "empty", "plain", "big", "broken", "locked", "big-broken"} }

SearchTexts == { <<>>, <<"f", "o", "o">>, <<"F", "O", "O">>, <<"o", " ">>, <<"q">> }

\* The developer's sources change on disk.
SourcesChange(t) ==
  /\ t \in SourceTrees
  /\ t # tree
  /\ tree' = t
  /\ last' = Step("sources-change", None, Returned(None), NoEnv)
  /\ UNCHANGED <<procVars, connVars, vaultVars, winVars, solutionConfig, formVars, chat>>

InitialConfigFiles ==
  { None, Some(NotJSON), Some(JSONNull), Some(JSONStringify(<<>>)),
    Some(JSONStringify(<<Member("theme", "string", "dark")>>)),
    Some(JSONStringify(<<Member("solutionPath", "null", "")>>)) }

\* The source search over configurations and source trees.
InitSearch ==
  /\ platform = "win32"
  /\ encAvail = TRUE
  /\ credentialsFile = None
  /\ Launched(None, <<Desktop>>)
  /\ solutionConfig \in InitialConfigFiles
  /\ tree \in SourceTrees
  /\ FormIdle
  /\ ChatIdle

NextSearch ==
  \/ \E path \in {"", "C:/src"}, write \in {"ok", WriteError} :
       SaveSolutionPath(path, write)
  \/ LoadSolutionPath
  \/ \E searchText \in SearchTexts : SearchSourceFiles(searchText)
  \/ \E t \in SourceTrees : SourcesChange(t)

SpecSearch == InitSearch /\ [][NextSearch]_vars

\* ---------------------------------------------------------- login form

\* The login page: its fields, the login button, the message area, the
\* pending timer of the success branch; invokes holds the ipcRenderer.invoke
\* calls that have not been answered yet. variant tells which of the two
\* login scripts the page carries.
MaxInvokes == 3
DefaultFields ==
  [server |-> "GEMINI", database |-> "JanusPlatformQA",
   username |-> "IrisPlatformCreate", password |-> "", saveCredentials |-> FALSE]

LoginPage(variant) ==
  [page |-> "login", variant |-> variant, fields |-> DefaultFields,
   disabled |-> FALSE, message |-> "", timer |-> FALSE]

Invoke(channel, arg) == [channel |-> channel, arg |-> arg]
RemoveAt(s, i) == SubSeq(s, 1, i - 1) \o SubSeq(s, i + 1, Len(s))
Pending(channel) == {i \in 1 .. Len(invokes) : invokes[i].channel = channel}

\* The config object the submit listener builds from the fields.
FormConfig(f) ==
  IF f.variant = "saved"
    THEN [server |-> f.fields.server, database |-> f.fields.database,
          username |-> f.fields.username, password |-> f.fields.password,
          encrypt |-> FALSE, saveCredentials |-> f.fields.saveCredentials]
    ELSE [server |-> f.fields.server, database |-> f.fields.database,
          username |-> f.fields.username, password |-> f.fields.password,
          encrypt |-> FALSE]

\* The listener up to its await.
OnSubmitMessageOnly(f) == [f EXCEPT !.message = "loading"]
OnSubmit(f) == [f EXCEPT !.disabled = TRUE, !.message = "loading"]

\* The listener after its await; answer is the resolved result or a throw.
OnAnswer(f, answer) ==
  IF answer.threw
    THEN [f EXCEPT !.message = "error", !.disabled = FALSE]
    ELSE IF answer.v.success
      THEN [f EXCEPT !.message = "connected", !.timer = TRUE]
      ELSE [f EXCEPT !.message = "failed", !.disabled = FALSE]

\* How an invoke can settle: the handler's result, or a rejection.
InvokeError == "Error invoking remote method"
ConnectOutcomes == {"ok", InvokeError} \cup ConnectErrors \cup {WriteError}
ConnectAnswerOf(config, outcome) ==
  IF outcome = "ok"
    THEN Returned([success |-> TRUE, database |-> DisplayName(config)])
    ELSE IF outcome = InvokeError THEN Threw(InvokeError)
    ELSE Returned([success |-> FALSE, error |-> outcome])
LoadOutcomes == {"null", InvokeError} \cup Servers
LoadAnswerOf(outcome) ==
  IF outcome = "null" THEN Returned(None)
  ELSE IF outcome = InvokeError THEN Threw(InvokeError)
  ELSE Returned(Some([server |-> outcome, database |-> "JanusPlatformQA",
                      username |-> "IrisPlatformCreate", password |-> "pw"]))

\* The user changes the fields (a disabled button does not lock them).
EditFields(server, password, checked) ==
  /\ form.page = "login"
  /\ server \in Servers /\ password \in {"", "pw"} /\ checked \in BOOLEAN
  /\ form' = [form EXCEPT !.fields.server = server,
                          !.fields.password = password,
                          !.fields.saveCredentials = checked]
  /\ form' # form
  /\ last' = Step("login:edit", None, Returned(None), NoEnv)
  /\ UNCHANGED <<procVars, connVars, vaultVars, winVars, searchVars, invokes, chat>>

\* The submit event: the button clicked or Enter pressed in a field; the
\* browser raises neither through a disabled submit button.
Submit ==
  /\ form.page = "login"
  /\ ~form.disabled
  /\ Len(invokes) < MaxInvokes
  /\ form' = OnSubmit(form)
  /\ invokes' = Append(invokes, Invoke("connect-database", FormConfig(form)))
  /\ last' = Step("login:submit", FormConfig(form), Returned(None), NoEnv)
  /\ UNCHANGED <<procVars, connVars, vaultVars, winVars, searchVars, chat>>

\* The connect-database invoke settles.
ConnectAnswer(i, outcome) ==
  /\ form.page = "login"
  /\ i \in Pending("connect-database")
  /\ outcome \in ConnectOutcomes
  /\ form' = OnAnswer(form, ConnectAnswerOf(invokes[i].arg, outcome))
  /\ invokes' = RemoveAt(invokes, i)
  /\ last' = Step("login:answer", invokes[i].arg,
                  ConnectAnswerOf(invokes[i].arg, outcome), NoEnv)
  /\ UNCHANGED <<procVars, connVars, vaultVars, winVars, searchVars, chat>>

\* The timer of the success branch fires.
TimerFires ==
  /\ form.page = "login"
  /\ form.timer
  /\ Len(invokes) < MaxInvokes
  /\ form' = [form EXCEPT !.timer = FALSE]
  /\ invokes' = Append(invokes, Invoke("show-main-app", None))
  /\ last' = Step("login:timer", None, Returned(None), NoEnv)
  /\ UNCHANGED <<procVars, connVars, vaultVars, winVars, searchVars, chat>>

\* show-main-app has run: app.html replaces the login page, or its load
\* failed and the login page stays.
ShowMainAppDone(i, loaded) ==
  /\ form.page = "login"
  /\ i \in Pending("show-main-app")
  /\ IF loaded
       THEN form' = [page |-> "main"] /\ invokes' = <<>>
       ELSE form' = form /\ invokes' = RemoveAt(invokes, i)
  /\ last' = Step("login:show-main-app", None, Returned(loaded), NoEnv)
  /\ UNCHANGED <<procVars, connVars, vaultVars, winVars, searchVars, chat>>

\* DOMContentLoaded's load-credentials settles.
CredentialsLoaded(i, outcome) ==
  LET answer == LoadAnswerOf(outcome)
  IN
  /\ form.page = "login"
  /\ i \in Pending("load-credentials")
  /\ outcome \in LoadOutcomes
  /\ form' = IF ~answer.threw /\ answer.v # None
               THEN [form EXCEPT !.fields = [server |-> answer.v[1].server,
                                             database |-> answer.v[1].database,
                                             username |-> answer.v[1].username,
                                             password |-> answer.v[1].password,
                                             saveCredentials |-> TRUE]]
               ELSE form
  /\ invokes' = RemoveAt(invokes, i)
  /\ last' = Step("login:load-credentials", None, answer, NoEnv)
  /\ UNCHANGED <<procVars, connVars, vaultVars, winVars, searchVars, chat>>

\* clearSavedCredentials() up to its await, and after it.
ClearClicked ==
  /\ form.page = "login"
  /\ form.variant = "saved"
  /\ Len(invokes) < MaxInvokes
  /\ invokes' = Append(invokes, Invoke("clear-credentials", None))
  /\ last' = Step("login:clear", None, Returned(None), NoEnv)
  /\ UNCHANGED <<procVars, connVars, vaultVars, winVars, searchVars, form, chat>>

ClearAnswered(i, threw) ==
  /\ form.page = "login"
  /\ i \in Pending("clear-credentials")
  /\ form' = IF threw THEN form ELSE [form EXCEPT !.fields = DefaultFields]
  /\ invokes' = RemoveAt(invokes, i)
  /\ last' = Step("login:cleared", None,
                  IF threw THEN Threw(InvokeError) ELSE Returned(None), NoEnv)
  /\ UNCHANGED <<procVars, connVars, vaultVars, winVars, searchVars, chat>>

\* The login page as loaded: the script with saved credentials asks for
\* them on DOMContentLoaded.
InitLogin ==
  /\ platform = "win32"
  /\ encAvail = TRUE
  /\ credentialsFile = None
  /\ Launched(None, <<Desktop>>)
  /\ SearchIdle
  /\ ChatIdle
  /\ \E variant \in {"saved", "plain"} :
       /\ form = LoginPage(variant)
       /\ invokes = IF variant = "saved"
                      THEN <<Invoke("load-credentials", None)>> ELSE <<>>

NextLogin ==
  \/ \E server \in Servers, password \in {"", "pw"}, checked \in BOOLEAN :
       EditFields(server, password, checked)
  \/ Submit
  \/ \E i \in 1 .. MaxInvokes, outcome \in ConnectOutcomes : ConnectAnswer(i, outcome)
  \/ TimerFires
  \/ \E i \in 1 .. MaxInvokes, loaded \in BOOLEAN : ShowMainAppDone(i, loaded)
  \/ \E i \in 1 .. MaxInvokes, outcome \in LoadOutcomes : CredentialsLoaded(i, outcome)
  \/ ClearClicked
  \/ \E i \in 1 .. MaxInvokes, threw \in BOOLEAN : ClearAnswered(i, threw)

SpecLogin == InitLogin /\ [][NextLogin]_vars

\* ------------------------------------------------------ DynamoDB chat

\* chat holds the interface createDynamoDBChatInterface builds and its
\* agent: the status line, agent.isReady, the health check the constructor
\* started, the suggestion spans, the children of #chat-messages, the input
\* text, the send button, the agent.query calls not settled yet. Every
\* message carries the number of the sendQuery call that added it (0 for
\* those of initialize); added collects the user messages, replies and
\* errors ever appended.
MaxQueries == 3

NewChat ==
  [phase |-> "health", status |-> "Checking connection...", ready |-> FALSE,
   constructorCheck |-> TRUE, suggestions |-> <<>>, messages |-> <<>>,
   input |-> <<>>, disabled |-> FALSE, pending |-> {}, next |-> 1,
   added |-> {}]

\* addMessage(content, isUser): one more child of #chat-messages.
addMessage(c, kind, text, isUser, q) ==
  LET m == [isUser |-> isUser, kind |-> kind, text |-> text, q |-> q]
  IN  [c EXCEPT !.messages = Append(@, m),
                !.added = IF kind \in {"query", "response", "error"}
                            THEN @ \cup {m} ELSE @]

\* messagesEl.removeChild(messagesEl.lastChild)
removeLastChild(c) ==
  [c EXCEPT !.messages = SubSeq(@, 1, Len(@) - 1)]

\* sendQuery() up to its await; with agent.isReady false agent.query rejects
\* at once and the catch and finally blocks run before any other event.
sendQuery(c) ==
  LET query == Trim(c.input)
      q == c.next
      shown == addMessage(
                 [addMessage(c, "query", query, TRUE, q)
                    EXCEPT !.input = <<>>, !.disabled = TRUE, !.next = q + 1],
                 "thinking", <<>>, FALSE, q)
  IN  IF query = <<>> THEN c
      ELSE IF ~c.ready
        THEN [addMessage(removeLastChild(shown), "error", <<>>, FALSE, q)
                EXCEPT !.disabled = FALSE]
        ELSE [shown EXCEPT !.pending = @ \cup {q}]

ChatFrame ==
  UNCHANGED <<procVars, connVars, vaultVars, winVars, searchVars, formVars>>

\* A health check comes back: the one the constructor started, or the one
\* initialize() awaits.
HealthSettles(who, ready) ==
  /\ chat.phase # "none"
  /\ \/ /\ who = "constructor"
        /\ chat.constructorCheck
        /\ chat' = [chat EXCEPT !.constructorCheck = FALSE, !.ready = ready]
     \/ /\ who = "initialize"
        /\ chat.phase = "health"
        /\ chat' = IF ready
                     THEN [chat EXCEPT !.ready = TRUE, !.status = "Ready",
                                       !.phase = "suggestions"]
                     ELSE [addMessage(chat, "not-ready", <<>>, FALSE, 0)
                             EXCEPT !.ready = FALSE, !.status = "Not Ready",
                                    !.phase = "done"]
  /\ last' = Step("chat:health", who, Returned(ready), NoEnv)
  /\ ChatFrame

\* agent.getSuggestions() comes back with a list, or with undefined (then
\* suggestions.slice throws into the catch of initialize).
SuggestionsSettle(list) ==
  /\ chat.phase = "suggestions"
  /\ chat' = IF list = None
               THEN [addMessage(chat, "connection-error", <<>>, FALSE, 0)
                       EXCEPT !.status = "Connection Error", !.phase = "done"]
               ELSE [addMessage(chat, "greeting", <<>>, FALSE, 0)
                       EXCEPT !.suggestions =
                                SubSeq(list[1], 1, Min(Len(list[1]), 6)),
                              !.phase = "done"]
  /\ last' = Step("chat:suggestions", None, Returned(list), NoEnv)
  /\ ChatFrame

\* The user types into #chat-input.
TypeInput(text) ==
  /\ chat.phase # "none"
  /\ text # chat.input
  /\ chat' = [chat EXCEPT !.input = text]
  /\ last' = Step("chat:input", None, Returned(None), NoEnv)
  /\ ChatFrame

\* sendButton.onclick (a disabled button raises no click), inputEl.onkeypress
\* with Enter, and the onclick of the k-th suggestion span.
Send(trigger, k) ==
  LET c == IF trigger = "suggestion"
             THEN [chat EXCEPT !.input = chat.suggestions[k]] ELSE chat
  IN
  /\ chat.phase # "none"
  /\ chat.next <= MaxQueries
  /\ trigger \in {"click", "enter", "suggestion"}
  /\ trigger = "click" => ~chat.disabled
  /\ IF trigger = "suggestion" THEN k \in 1 .. Len(chat.suggestions) ELSE k = 0
  /\ chat' = sendQuery(c)
  /\ last' = Step("chat:send", trigger, Returned(Trim(c.input)), NoEnv)
  /\ ChatFrame

\* await agent.query(query) resumes: try or catch block, then finally.
QuerySettles(q, outcome) ==
  /\ q \in chat.pending
  /\ outcome \in {"response", "error"}
  /\ chat' = [addMessage(removeLastChild(chat), outcome, <<>>, FALSE, q)
                EXCEPT !.disabled = FALSE, !.pending = @ \ {q}]
  /\ last' = Step("chat:settled", q, Returned(outcome), NoEnv)
  /\ ChatFrame

InitChat ==
  /\ platform = "win32"
  /\ encAvail = TRUE
  /\ credentialsFile = None
  /\ Launched(None, <<Desktop>>)
  /\ SearchIdle
  /\ FormIdle
  /\ chat = NewChat

NextChat ==
  \/ \E who \in {"constructor", "initialize"}, ready \in BOOLEAN :
       HealthSettles(who, ready)
  \/ \E list \in {None, Some(<<>>),
                  Some(<< <<"s">>, <<" ">>, <<"s">>, <<"s">>, <<"s">>, <<"s">>,
                          <<"t">> >>)} :
       SuggestionsSettle(list)
  \/ \E text \in {<<>>, <<" ", "s", " ">>} : TypeInput(text)
  \/ \E trigger \in {"click", "enter", "suggestion"}, k \in 0 .. 6 :
       Send(trigger, k)
  \/ \E q \in 1 .. MaxQueries, outcome \in {"response", "error"} :
       QuerySettles(q, outcome)

SpecChat == InitChat /\ [][NextChat]_vars

\* =============================================================== claims

OpenOrClosing == {h \in Handles : handles[h] \in {"open", "closing"}}
NoConnectionResult == Returned([success |-> FALSE, error |-> "No database connection"])

\* C1: with connect-database requests handled one after another, at most one
\* handle is open (or still closing) at any moment, every such handle is the
\* one dbConnection references, and while a request waits for the driver to
\* open the new connection the previous one has finished closing.
C1_AtMostOneOpenHandle ==
  /\ Cardinality(OpenOrClosing) <= 1
  /\ \A h \in OpenOrClosing : dbConnection = h
  /\ \A c \in Calls : call[c].pc = "connecting" => OpenOrClosing = {}

\* A second connection is open and the first one has been closed.
C1_Witness ==
  /\ last.op = "connect-database"
  /\ \E h \in Handles, g \in Handles :
       h # g /\ handles[h] = "closed" /\ handles[g] = "open" /\ dbConnection = g

\* C2: an execute-query answered before any connect-database response carried
\* success: true returns the 'No database connection' failure, is not left by
\* a throw, and does not reach the driver.
C2_NoConnectionBeforeConnect ==
  (last.op = "execute-query" /\ ~connected) =>
     /\ last.val = NoConnectionResult
     /\ last.env.driver = ""

\* C3: an execute-query answered in a state where no connection is open (no
\* request in flight, every handle unused or closed) returns the 'No database
\* connection' failure and does not hand the query to a handle.
C3_FailFastWhenNoneOpen ==
  (last.op = "execute-query" /\ NoConnectInFlight /\ OpenOrClosing = {}) =>
     /\ last.val = NoConnectionResult
     /\ last.env.driver = ""

\* C4: a connect-database request the driver refuses answers success: false
\* with the driver's message, and no step of it changes currentDatabase,
\* currentTenant, the credentials file or dbConnection; the only change to a
\* handle a connect-database step makes short of establishing a connection is
\* to close the one dbConnection references.
C4_FailedConnectKeepsState ==
  [][ /\ (last'.op = "connect-database" /\ last'.env.driver \in ConnectErrors) =>
           /\ last'.val = Returned([success |-> FALSE, error |-> last'.env.driver])
           /\ UNCHANGED <<currentDatabase, currentTenant, credentialsFile,
                          dbConnection, handles>>
      /\ (last'.op \in {"connect-database:begin", "connect-database:closed"}) =>
           /\ UNCHANGED <<currentDatabase, currentTenant, credentialsFile,
                          dbConnection>>
           /\ \A h \in Handles :
                handles'[h] # handles[h] =>
                  h = dbConnection /\ handles[h] = "open" /\ handles'[h] = "closing"
    ]_vars

\* A refused request that followed an established connection: the earlier
\* display name and a stored credentials file are still there, the earlier
\* connection is closed.
C4_Witness ==
  /\ last.op = "connect-database"
  /\ last.env.driver \in ConnectErrors
  /\ last.val.v.success = FALSE
  /\ currentDatabase # None
  /\ currentDatabase # Some(last.arg.server \o "\\" \o last.arg.database)
  /\ credentialsFile # None
  /\ dbConnection # 0 /\ handles[dbConnection] = "closed"

\* C5: a get-context answered right after a connect-database that answered
\* success: true returns database = server + '\' + database of that config and
\* tenant = {id: 1, name: 'Default Tenant'}; and once the tenant is that
\* sentinel only set-tenant changes it.
C5_ContextAfterConnect ==
  [][ /\ (last.op = "connect-database" /\ last.val.v.success
          /\ last'.op = "get-context") =>
           last'.val = Returned(
             [database |-> Some(last.arg.server \o "\\" \o last.arg.database),
              tenant |-> Some([id |-> 1, name |-> "Default Tenant"])])
      /\ (currentTenant = Some([id |-> 1, name |-> "Default Tenant"])
          /\ currentTenant' # currentTenant) => last'.op = "set-tenant"
    ]_vars

\* get-context after a reconnect (the first connection is closed).
C5_Witness ==
  /\ last.op = "get-context"
  /\ last.val.v.tenant = Some([id |-> 1, name |-> "Default Tenant"])
  /\ last.val.v.database = Some("LOCAL\\JanusPlatformQA")
  /\ \E h \in Handles : handles[h] = "closed"

Keys(obj) == {obj[i].k : i \in 1 .. Len(obj)}
SameCredentials(obj, c) ==
  /\ Len(obj) = 4
  /\ Keys(obj) = {"server", "database", "username", "password"}
  /\ Prop(obj, "server") = c.server
  /\ Prop(obj, "database") = c.database
  /\ Prop(obj, "username") = c.username
  /\ Prop(obj, "password") = c.password

\* C6: with encryption available, load-credentials after a record was stored
\* returns a record equal to the latest one stored, and after a successful
\* clear-credentials it returns null.
C6_StoreLoadRoundTrip ==
  (last.op = "load-credentials" /\ encAvail) =>
     /\ stored.kind = "stored" =>
          /\ ~last.val.threw
          /\ last.val.v # None
          /\ SameCredentials(last.val.v[1], stored.creds)
     /\ stored.kind = "cleared" => last.val = Returned(None)

\* load-credentials returns a stored record; and it returns null after a
\* stored record was cleared.
C6_Witness ==
  /\ last.op = "load-credentials" /\ encAvail
  /\ stored.kind = "cleared"
  /\ stored.creds # NoConfig
  /\ last.val = Returned(None)

\* C7: clear-credentials answers {success: true} unless the delete itself
\* failed, and then the file does not exist; it answers {success: false, error}
\* exactly when the delete failed, and then the file is still there.
C7_ClearCredentials ==
  last.op = "clear-credentials" =>
     /\ ~last.val.threw
     /\ IF last.env.fs \in {"", "ok"}
          THEN last.val.v = [success |-> TRUE] /\ credentialsFile = None
          ELSE /\ last.val.v = [success |-> FALSE, error |-> last.env.fs]
               /\ credentialsFile # None

\* clear-credentials succeeded without a file to delete.
C7_Witness ==
  /\ last.op = "clear-credentials"
  /\ last.env.fs = ""
  /\ last.val.v = [success |-> TRUE]

Unreadable(file) ==
  \/ file = None
  \/ file[1].key # "os-key"
  \/ ~file[1].text.wellFormed

\* C8: load-credentials never throws and returns null when encryption is
\* unavailable, the file is missing, it does not decrypt or it is not JSON;
\* with encryption unavailable connect-database leaves the credentials file
\* as it is and its answer is the connection's result.
C8_EncryptionUnavailable ==
  [][ /\ last'.op = "load-credentials" =>
           /\ ~last'.val.threw
           /\ (~encAvail \/ Unreadable(credentialsFile)) => last'.val.v = None
      /\ (~encAvail /\ last'.op = "connect-database") =>
           /\ credentialsFile' = credentialsFile
           /\ ~last'.val.threw
           /\ last'.val.v.success = (last'.env.driver = "ok")
    ]_vars

\* Without encryption: a connection asked to save credentials succeeded and
\* the file that was there is still there.
C8_Witness ==
  /\ ~encAvail
  /\ last.op = "connect-database"
  /\ last.arg.saveCredentials
  /\ last.val.v.success
  /\ credentialsFile # None


InsideSomeDisplay(x, y) ==
  \E i \in 1 .. Len(displays) :
    LET d == displays[i].bounds
    IN  /\ d.x <= x /\ x < d.x + d.width
        /\ d.y <= y /\ y < d.y + d.height

\* C9: when the latest move, resize or show-main-app wrote the window state
\* and the origin of the bounds the window had then lies within an attached
\* display, loadWindowState at the next launch returns exactly those bounds.
C9_LoadAfterSave ==
  (last.op = "createWindow" /\ saved # None
   /\ InsideSomeDisplay(saved[1].x, saved[1].y)) =>
     /\ ~last.val.threw
     /\ Keys(last.val.v) = {"x", "y", "width", "height"}
     /\ Len(last.val.v) = 4
     /\ Prop(last.val.v, "x") = saved[1].x
     /\ Prop(last.val.v, "y") = saved[1].y
     /\ Prop(last.val.v, "width") = saved[1].width
     /\ Prop(last.val.v, "height") = saved[1].height

\* A launch restores bounds saved on the external display after the window
\* was moved there and resized.
C9_Witness ==
  /\ last.op = "createWindow"
  /\ saved = Some(Rect(3199, 1023, 1000, 700))
  /\ InsideSomeDisplay(3199, 1023)
  /\ mainWindow = [x |-> 3199, y |-> 1023, width |-> 1000, height |-> 700,
                   resizable |-> FALSE]

\* Math.round of n / 2, stated by its defining inequality.
Rounded(n) ==
  LET m == IF n < 0 THEN -n ELSE n
  IN  CHOOSE r \in -m .. m : 2 * r - 1 <= n /\ n < 2 * r + 1

SavedObject ==
  IF windowStateFile # None /\ windowStateFile[1].wellFormed
     /\ windowStateFile[1].type = "object"
    THEN Some(windowStateFile[1].members) ELSE None

SavedOrigin ==
  /\ SavedObject # None
  /\ TypeOf(SavedObject[1], "x") = "number"
  /\ TypeOf(SavedObject[1], "y") = "number"
  /\ InsideSomeDisplay(Prop(SavedObject[1], "x"), Prop(SavedObject[1], "y"))

\* C10: loadWindowState never throws; it returns the saved state when the
\* file holds an object whose x and y lie within an attached display (far
\* edges excluded), and in every other case the default, centred on the
\* primary display's work area with size 450 x 600.
C10_DefaultUnlessOnDisplay ==
  last.op = "createWindow" =>
     /\ ~last.val.threw
     /\ IF SavedOrigin
          THEN last.val.v = SavedObject[1]
          ELSE LET W == displays[1].workAreaSize.width
                   H == displays[1].workAreaSize.height
               IN  last.val.v =
                     << Member("x", "number", Rounded(W - 450)),
                        Member("y", "number", Rounded(H - 600)),
                        Member("width", "number", 450),
                        Member("height", "number", 600) >>

\* A launch finds the origin it saved exactly on the far edge of a display,
\* and no display holding it, and uses the default.
C10_Witness ==
  /\ last.op = "createWindow"
  /\ saved # None
  /\ SavedObject # None
  /\ TypeOf(SavedObject[1], "x") = "number"
  /\ \E i \in 1 .. Len(displays) :
       Prop(SavedObject[1], "x") = displays[i].bounds.x + displays[i].bounds.width
  /\ ~SavedOrigin
  /\ mainWindow.width = 450 /\ mainWindow.x # Prop(SavedObject[1], "x")


\* ------------------------------------------- claims on the source search

\* The directory names the search must stay out of.
SkippedDirectoryName(name) ==
  \/ name = <<"b", "i", "n">>
  \/ name = <<"o", "b", "j">>
  \/ name # <<>> /\ name[1] = "."

\* The entries of the tree in depth-first traversal order, each with its
\* path, descending into every directory that is not to be stayed out of.
RECURSIVE TraversalOrder(_, _)
TraversalOrder(dir, entries) ==
  IF entries = <<>> THEN <<>>
  ELSE LET e == Head(entries)
           p == Append(dir, e.name)
       IN  << [path |-> p, entry |-> e] >>
           \o (IF e.type = "dir" /\ ~SkippedDirectoryName(e.name)
                 THEN TraversalOrder(p, e.entries) ELSE <<>>)
           \o TraversalOrder(dir, Tail(entries))

\* The numbers of the lines that contain the text, case ignored.
MatchingLines(lines, searchText) ==
  SelectSeq([n \in 1 .. Len(lines) |-> n],
            LAMBDA n : Includes(ToLowerCase(lines[n]), ToLowerCase(searchText)))

\* The <<file, line>> matches of the readable .cs files among the items.
RECURSIVE MatchesOf(_, _)
MatchesOf(items, searchText) ==
  IF items = <<>> THEN <<>>
  ELSE LET it == Head(items)
           ns == IF it.entry.type = "file" /\ it.entry.stat = "ok"
                    /\ it.entry.read = "ok" /\ EndsWith(it.entry.name, <<".", "c", "s">>)
                   THEN MatchingLines(it.entry.lines, searchText) ELSE <<>>
       IN  [i \in 1 .. Len(ns) |-> <<it.path, ns[i]>>]
           \o MatchesOf(Tail(items), searchText)

SearchSucceeded ==
  /\ last.op = "search-source-files"
  /\ last.val.v.success

SearchRoot == <<Prop(JSONParse(solutionConfig[1]).v.members, "solutionPath")>>
CompleteWalk == TraversalOrder(SearchRoot, tree.entries)
ReturnedMatches ==
  [i \in 1 .. Len(last.val.v.results) |->
     <<last.val.v.results[i].file, last.val.v.results[i].line>>]

\* C11: a successful search returns at most 50 results, they are exactly the
\* first 50 (or all, if fewer) matches in traversal order of the complete
\* walk, and the walk visited every entry of the traversal.
C11_FirstFiftyOfCompleteWalk ==
  SearchSucceeded =>
    LET all == MatchesOf(CompleteWalk, last.arg)
    IN  /\ Len(last.val.v.results) <= 50
        /\ ReturnedMatches = SubSeq(all, 1, Min(50, Len(all)))
        /\ last.env.visited = [i \in 1 .. Len(CompleteWalk) |-> CompleteWalk[i].path]

\* A search over more than 50 matches answered with 50 results, whose walk
\* went on to the files behind the fiftieth match.
C11_Witness ==
  /\ SearchSucceeded
  /\ Len(MatchesOf(CompleteWalk, last.arg)) > 50
  /\ Len(last.val.v.results) = 50
  /\ \E i \in 1 .. Len(last.env.visited) :
       /\ last.env.visited[i] # last.val.v.results[50].file
       /\ \E j \in 1 .. i - 1 : last.env.visited[j] = last.val.v.results[50].file


Range(s) == {s[i] : i \in 1 .. Len(s)}

\* The entry of the tree at a path given relative to the root.
RECURSIVE EntryAt(_, _)
EntryAt(entries, rel) ==
  LET e == CHOOSE x \in Range(entries) : x.name = rel[1]
  IN  IF Len(rel) = 1 THEN e ELSE EntryAt(e.entries, Tail(rel))

\* The directories a file lies under, below the root.
DirectoriesAbove(file) == {file[k] : k \in 2 .. Len(file) - 1}

\* C12: no result of a search lies under a directory named bin or obj or
\* starting with '.', at any depth; every entry of the root and of every
\* other visited sub-directory is visited.
C12_SkippedDirectories ==
  SearchSucceeded =>
    /\ \A r \in Range(last.val.v.results) :
         \A name \in DirectoriesAbove(r.file) : ~SkippedDirectoryName(name)
    /\ \A e \in Range(tree.entries) :
         Append(SearchRoot, e.name) \in Range(last.env.visited)
    /\ \A p \in Range(last.env.visited) :
         LET d == EntryAt(tree.entries, Tail(p))
         IN  d.type = "dir" /\ ~SkippedDirectoryName(d.name) =>
               \A e \in Range(d.entries) :
                 Append(p, e.name) \in Range(last.env.visited)

\* A search whose text occurs in .cs files under bin, obj and dot
\* directories (also two levels down) and that found a file two levels down.
C12_Witness ==
  /\ SearchSucceeded
  /\ tree = SourceTree("plain")
  /\ last.arg = FooLine
  /\ \E r \in Range(last.val.v.results) : Len(r.file) = 4


\* C13: a match on line n of a file with L lines carries line = n and a
\* context of exactly the lines max(1, n-2) .. min(L, n+2), in order, with
\* their 1-based numbers and trimmed contents, of which exactly the entry
\* numbered n is flagged isMatch.
C13_ContextAroundMatch ==
  SearchSucceeded =>
    \A r \in Range(last.val.v.results) :
      LET lines == EntryAt(tree.entries, Tail(r.file)).lines
          n == r.line
          lo == Max(1, n - 2)
          hi == Min(Len(lines), n + 2)
      IN  /\ n \in 1 .. Len(lines)
          /\ Includes(ToLowerCase(lines[n]), ToLowerCase(last.arg))
          /\ Len(r.context) = hi - lo + 1
          /\ \A i \in 1 .. Len(r.context) :
               /\ r.context[i].lineNumber = lo + i - 1
               /\ r.context[i].content = Trim(lines[lo + i - 1])
               /\ r.context[i].isMatch = (r.context[i].lineNumber = n)

\* The solution path the configuration file offers, if any.
SolutionPathAvailable ==
  /\ solutionConfig # None
  /\ ~JSONParse(solutionConfig[1]).threw
  /\ JSONParse(solutionConfig[1]).v.type = "object"
  /\ TypeOf(JSONParse(solutionConfig[1]).v.members, "solutionPath") = "string"
  /\ Prop(JSONParse(solutionConfig[1]).v.members, "solutionPath") # ""

\* The configuration file is there and well formed, and names no path.
NoSolutionPathNamed ==
  /\ solutionConfig # None
  /\ ~JSONParse(solutionConfig[1]).threw
  /\ JSONParse(solutionConfig[1]).v.type = "object"
  /\ ~SolutionPathAvailable

\* C14: without a solution path (configuration file missing, without
\* solutionPath or with an empty one) the search answers 'Solution path not
\* configured' and walks nothing; every other failure carries the message
\* of what failed.
C14_NotConfigured ==
  last.op = "search-source-files" =>
    /\ solutionConfig = None \/ NoSolutionPathNamed =>
         /\ last.val = Returned([success |-> FALSE,
                                 error |-> "Solution path not configured"])
         /\ last.env.visited = <<>>
    /\ ~(solutionConfig = None \/ NoSolutionPathNamed) /\ ~last.val.v.success =>
         last.val.v.error # "Solution path not configured"

\* C15: with a solution path and its directory in place, a file whose
\* contents or metadata cannot be read does not fail the search: the answer
\* is success with the matches of every other readable file.
C15_UnreadableFileNotFatal ==
  last.op = "search-source-files" /\ SolutionPathAvailable /\ tree.exists =>
    LET all == MatchesOf(CompleteWalk, last.arg)
    IN  /\ last.val.v.success
        /\ ReturnedMatches = SubSeq(all, 1, Min(50, Len(all)))


\* ------------------------------- claims on the vault's frame and the log

\* C16: the credentials file changes only in a connect-database whose driver
\* connection succeeded with saveCredentials set and encryption available
\* (the file is written) or in clear-credentials (the file is removed);
\* every other step leaves its presence and content as they are.
C16_CredentialsFileFrame ==
  [][ credentialsFile' # credentialsFile =>
        \/ /\ last'.op = "connect-database"
           /\ last'.env.driver = "ok"
           /\ last'.arg.saveCredentials
           /\ encAvail
           /\ credentialsFile' # None
        \/ /\ last'.op = "clear-credentials"
           /\ credentialsFile' = None
    ]_vars

\* A login without opt-in succeeded, with encryption available, after a
\* record had been stored: the record is still there.
C16_Witness ==
  /\ last.op = "connect-database"
  /\ last.val.v.success
  /\ ~last.arg.saveCredentials
  /\ encAvail
  /\ stored.kind = "stored"
  /\ credentialsFile = Some(EncryptString(JSONStringify(Credentials(stored.creds))))

\* The texts a log holds.
Logged(log) == {log[i].text : i \in 1 .. Len(log)}

\* What the answer to a query carries as its outcome.
Outcome(v) == IF v.success THEN v.data ELSE v.error

\* C17: every execute-query has written the query text and its outcome (the
\* row set or the error) to the log when it answers.
C17_QueryAndOutcomeLogged ==
  last.op = "execute-query" =>
    /\ last.arg \in Logged(last.env.log)
    /\ Outcome(last.val.v) \in Logged(last.env.log)

\* C20: a connect-database answered with success: false has installed no
\* connection: the driver did not establish one in that request, and
\* dbConnection does not refer to a handle opened by it.
C20_FailureInstallsNothing ==
  (last.op = "connect-database" /\ ~last.val.v.success) =>
    /\ last.env.driver # "ok"
    /\ ~(last.env.handle # 0 /\ dbConnection = last.env.handle)


\* ------------------------------------- connect-database requests overlap

\* The main process as ipcMain runs it: a connect-database request is taken
\* whenever it arrives, also while others are suspended at an await.
InitConcurrent ==
  /\ platform = "win32"
  /\ encAvail \in BOOLEAN
  /\ credentialsFile = None
  /\ Launched(None, <<Desktop>>)
  /\ SearchIdle
  /\ FormIdle
  /\ ChatIdle

NextConcurrent ==
  \/ \E c \in Calls, config \in Configs : ConnectBegin(c, config)
  \/ \E h \in Handles : DriverCloseDone(h)
  \/ \E c \in Calls : ConnectCloseDone(c)
  \/ \E c \in Calls, msg \in ConnectErrors : ConnectRefused(c, msg)
  \/ \E c \in Calls, write \in {"ok", WriteError} : ConnectEstablished(c, write)

SpecConcurrent == InitConcurrent /\ [][NextConcurrent]_vars

\* C18: however connect-database requests overlap, at most one handle is
\* open and an open handle is the one dbConnection references.
C18_OneLiveConnection ==
  /\ Cardinality({h \in Handles : handles[h] = "open"}) <= 1
  /\ \A h \in Handles : handles[h] = "open" => dbConnection = h


\* ------------------------------------------------ claims on the login form

\* C19: while the login page is shown, at most one connect-database request
\* is in flight and the login button is disabled as long as one is; after a
\* failure answer or a rejection the button is enabled again; after a success
\* answer it stays disabled for as long as the login page stays.
C19_ButtonDisabledWhileConnecting ==
  form.page = "login" =>
    /\ Cardinality(Pending("connect-database")) <= 1
    /\ Pending("connect-database") # {} => form.disabled
    /\ (last.op = "login:answer" /\ (last.val.threw \/ ~last.val.v.success)) =>
         ~form.disabled
    /\ form.message = "connected" => form.disabled

\* A login succeeded, its timer fired and show-main-app did not replace the
\* page: the button is still disabled.
C19_Witness ==
  /\ form.page = "login"
  /\ last.op = "login:show-main-app"
  /\ form.message = "connected"
  /\ form.disabled
  /\ Pending("connect-database") = {}


\* ------------------------------------------ claims on the context's shape

\* C21: whenever dbConnection is set, currentDatabase and currentTenant are
\* set too; currentDatabase is set only once the driver has established a
\* connection; and a step that sets currentTenant while dbConnection stays
\* null is a set-tenant.
C21_ContextShape ==
  /\ [](/\ dbConnection # 0 => currentDatabase # None /\ currentTenant # None
        /\ currentDatabase # None => \E h \in Handles : handles[h] # "unused")
  /\ [][ (currentTenant = None /\ currentTenant' # None /\ dbConnection' = 0) =>
           last'.op = "set-tenant" ]_vars

\* A tenant was chosen before any connection: currentTenant is set while
\* dbConnection and currentDatabase are null.
C21_Witness ==
  /\ last.op = "set-tenant"
  /\ dbConnection = 0
  /\ currentTenant # None
  /\ currentDatabase = None


\* ------------------------------------------------------ claims on the chat

\* C22: once every pending query has settled, no 'Analyzing your request...'
\* placeholder is left among the messages, and every user message, reply and
\* error ever added is still there.
C22_SettledChatIsClean ==
  (chat.phase # "none" /\ chat.pending = {}) =>
    /\ \A m \in Range(chat.messages) : m.kind # "thinking"
    /\ \A m \in chat.added : m \in Range(chat.messages)

====
